---- MODULE Spec2Model ----
(***************************************************************************)
(* Secret Number Survivor backend: the in-memory room registry, the turn   *)
(* and elimination engine (src/gameManager.js, class GameManager) and the  *)
(* socket handlers that drive it (src/gameManager.js:249-334 for the build *)
(* with the disconnect grace period, src/index.js:20-96 for the build that *)
(* removes a player as soon as the socket drops).                          *)
(*                                                                         *)
(* JavaScript objects are references: game.eliminatedPlayers and           *)
(* game.winner hold the player objects themselves.  Each player object     *)
(* carries an object identity `oid`, and those two fields hold oids.       *)
(* Array indices stay 0-based as in the source; players[i] of the source   *)
(* is players[i + 1] here.                                                 *)
(* Not modelled: grid, minNumber, maxNumber (written once by createGame,   *)
(* never read by the engine) and the log entry's timestamp.                *)
(***************************************************************************)
EXTENDS Integers, Sequences, FiniteSets, TLC

\* ---------------------------------------------------------------- bounds
MaxRooms == 1            \* room codes the generator can draw
MaxSockets == 3          \* socket ids in use at the same time
MaxPlayersCreated == 2   \* player objects ever created (create + join)
MaxNumber == 2           \* numbers that can be called
MaxLog == 1              \* accepted calls recorded between two starts
MaxSeats == 3            \* players of the room that a game in progress starts from

\* ---------------------------------------------------- program constants
MaxPlayers == 20         \* joinGame: game.players.length >= 20
NoPlayer == 0            \* winner: null

Codes == 1..MaxRooms
SocketIds == 1..MaxSockets
Names == {"a", "b"}

\* ------------------------------------------------------------ JS values
\* secretNumber is null, NaN or a number; the called number is a number.
Num(n) == [t |-> "num", v |-> n]
NaN == [t |-> "nan", v |-> 0]
NULL == [t |-> "null", v |-> 0]

\* a === b on those values: NaN is equal to nothing, itself included
StrictEq(a, b) == a.t = b.t /\ a.t # "nan" /\ a.v = b.v

\* The secretNumber payloads: strings as sequences of characters.
RawSecrets == {<<"1">>, <<"2", "x">>}
IsDigit(c) == c \in {"0", "1", "2"}
DigitVal(c) == CASE c = "0" -> 0 [] c = "1" -> 1 [] c = "2" -> 2

RECURSIVE DigitPrefix(_)
DigitPrefix(s) ==
    IF s = <<>> \/ ~IsDigit(Head(s)) THEN <<>>
    ELSE <<Head(s)>> \o DigitPrefix(Tail(s))

RECURSIVE DigitsValue(_, _)
DigitsValue(s, acc) ==
    IF s = <<>> THEN acc ELSE DigitsValue(Tail(s), 10 * acc + DigitVal(Head(s)))

\* parseInt(secretNumber): the leading digits, NaN when there are none
parseInt(s) ==
    IF DigitPrefix(s) = <<>> THEN NaN ELSE Num(DigitsValue(DigitPrefix(s), 0))

CallNumbers == {Num(n) : n \in 1..MaxNumber}

\* ---------------------------------------------------------------- state
VARIABLES
    games,             \* the Map games, as the sequence of its values in insertion order
    disconnectTimers,  \* keys of the Map disconnectTimers (a pending timer each)
    open,              \* the live connections whose id a player object holds
    nextOid            \* next player object identity

vars == <<games, disconnectTimers, open, nextOid>>

\* ---------------------------------------------------------- Map helpers
\* games.has(code)
Has(gs, code) == \E k \in 1..Len(gs) : gs[k].roomCode = code
\* position of the entry games.get(code)
Pos(gs, code) == CHOOSE k \in 1..Len(gs) : gs[k].roomCode = code
\* games.get(code)
Get(gs, code) == gs[Pos(gs, code)]
\* the Map after game, which is games.get(code), was mutated in place
Put(gs, g) == [gs EXCEPT ![Pos(gs, g.roomCode)] = g]
\* games.delete(code)
Delete(gs, code) ==
    SubSeq(gs, 1, Pos(gs, code) - 1) \o SubSeq(gs, Pos(gs, code) + 1, Len(gs))

\* players.findIndex(p => p.id === socketId): 0-based, -1 when nothing matches
IndexOfId(players, socketId) ==
    IF \E i \in 1..Len(players) : players[i].id = socketId
    THEN (CHOOSE i \in 1..Len(players) :
              /\ players[i].id = socketId
              /\ \A j \in 1..(i - 1) : players[j].id # socketId) - 1
    ELSE -1

\* the index of players.find(p => p.name === playerName): 0-based, -1 when
\* nothing matches
IndexOfName(players, playerName) ==
    IF \E i \in 1..Len(players) : players[i].name = playerName
    THEN (CHOOSE i \in 1..Len(players) :
              /\ players[i].name = playerName
              /\ \A j \in 1..(i - 1) : players[j].name # playerName) - 1
    ELSE -1

ActivePlayers(g) == SelectSeq(g.players, LAMBDA p : ~p.isEliminated)

Init ==
    /\ games = <<>>
    /\ disconnectTimers = {}
    /\ open = {}
    /\ nextOid = 1

\* the socket ids that player objects hold
SeatIds(gs) ==
    UNION {{gs[k].players[i].id : i \in 1..Len(gs[k].players)} : k \in 1..Len(gs)}

\* io.on('connection'): socket.io gives every connection a fresh unique id, and the
\* program only ever compares ids for equality.  An id is in use while a player
\* object or a timer key holds it; a connection whose id is in use nowhere has left
\* no trace in the program, so all such connections behave alike and the next one
\* is named by the least number that is not in use.
InUse == SeatIds(games) \cup disconnectTimers \cup open
FreshSock ==
    LET free == SocketIds \ InUse
    IN {s \in free : \A t \in free : s <= t}
Callers == open \cup FreshSock

\* the live connections that still have a seat after a command by connection s
\* left the registry as gs
Seated(gs, s) == (open \cup {s}) \cap SeatIds(gs)

\* generateRoomCode: a code that games does not hold
FreeCodes(gs) == {c \in Codes : ~Has(gs, c)}

NewPlayer(oid, socketId, playerName, isHost) ==
    [oid |-> oid, id |-> socketId, name |-> playerName, isHost |-> isHost,
     secretNumber |-> NULL, isEliminated |-> FALSE, isReady |-> FALSE]

\* createGame: the game object stored under roomCode
NewGame(roomCode, player) ==
    [roomCode |-> roomCode, players |-> <<player>>, gameState |-> "LOBBY",
     currentTurnIndex |-> 0, eliminatedPlayers |-> <<>>, winner |-> NoPlayer,
     gameLog |-> <<>>]

\* socket.on('create_game')
CreateGame(s, playerName) ==
    /\ s \in Callers
    /\ \E roomCode \in FreeCodes(games) :
        /\ games' = Append(games, NewGame(roomCode, NewPlayer(nextOid, s, playerName, TRUE)))
    /\ nextOid' = nextOid + 1
    /\ open' = Seated(games', s)
    /\ UNCHANGED disconnectTimers

\* JoinGameResult without the test of gameState
JoinGameResultAnyState(gs, roomCode) ==
    IF ~Has(gs, roomCode) THEN "Room not found"
    ELSE IF Len(Get(gs, roomCode).players) >= MaxPlayers THEN "Room is full"
    ELSE "ok"

\* JoinGameResult that compares the room size with > instead of >=
JoinGameResultCapOffByOne(gs, roomCode) ==
    IF ~Has(gs, roomCode) THEN "Room not found"
    ELSE IF Get(gs, roomCode).gameState # "LOBBY" THEN "Game already in progress"
    ELSE IF Len(Get(gs, roomCode).players) > MaxPlayers THEN "Room is full"
    ELSE "ok"

\* joinGame: the error it returns, "ok" when the player is admitted
JoinGameResult(gs, roomCode) ==
    IF ~Has(gs, roomCode) THEN "Room not found"
    ELSE IF Get(gs, roomCode).gameState # "LOBBY" THEN "Game already in progress"
    ELSE IF Len(Get(gs, roomCode).players) >= MaxPlayers THEN "Room is full"
    ELSE "ok"

\* socket.on('join_game')
JoinGame(s, roomCode, playerName) ==
    /\ s \in Callers
    /\ LET result == JoinGameResult(games, roomCode) IN
        IF result = "ok"
        THEN /\ games' = Put(games, [Get(games, roomCode) EXCEPT
                    !.players = Append(@, NewPlayer(nextOid, s, playerName, FALSE))])
             /\ nextOid' = nextOid + 1
             /\ open' = Seated(games', s)
        ELSE UNCHANGED <<games, nextOid, open>>
    /\ UNCHANGED disconnectTimers

\* CancelTimer that leaves the entry of the old socket in the table
CancelTimerKeepsEntry(timers, socketId) == timers

\* rejoinGame: disconnectTimers after the pending timer of the old socket is cleared
CancelTimer(timers, socketId) == timers \ {socketId}

\* Rebind that resets the player as joinGame builds a new one
RebindAsNewPlayer(player, newSocketId) ==
    [player EXCEPT !.id = newSocketId, !.secretNumber = NULL, !.isReady = FALSE]

\* rejoinGame: the matched player after player.id = newSocketId
Rebind(player, newSocketId) == [player EXCEPT !.id = newSocketId]

\* rejoinGame: the error it returns, "ok" when a player of that name is found
RejoinGameResult(gs, roomCode, playerName) ==
    IF ~Has(gs, roomCode) THEN "Room not found"
    ELSE IF IndexOfName(Get(gs, roomCode).players, playerName) = -1
         THEN "Player not found in this room"
    ELSE "ok"

\* socket.on('rejoin_game')
RejoinGame(s, roomCode, playerName) ==
    /\ s \in Callers
    /\ LET result == RejoinGameResult(games, roomCode, playerName) IN
        IF result = "ok"
        THEN LET game == Get(games, roomCode)
                 index == IndexOfName(game.players, playerName)
                 player == game.players[index + 1]
             IN /\ disconnectTimers' = CancelTimer(disconnectTimers, player.id)
                /\ games' = Put(games, [game EXCEPT
                       !.players[index + 1] = Rebind(player, s)])
                /\ open' = Seated(games', s)
        ELSE UNCHANGED <<games, disconnectTimers, open>>
    /\ UNCHANGED nextOid

\* playerReady: the game after the player of that socket, if any, committed a secret
ReadyGame(game, socketId, secretNumber) ==
    LET index == IndexOfId(game.players, socketId) IN
    IF index = -1 THEN game
    ELSE [game EXCEPT !.players[index + 1] =
              [@ EXCEPT !.secretNumber = parseInt(secretNumber), !.isReady = TRUE]]

\* socket.on('player_ready')
PlayerReady(s, roomCode, secretNumber) ==
    /\ s \in Callers
    /\ IF ~Has(games, roomCode)
       THEN UNCHANGED games
       ELSE games' = Put(games, ReadyGame(Get(games, roomCode), s, secretNumber))
    /\ UNCHANGED <<disconnectTimers, open, nextOid>>

\* StartGameResult without the allReady check
StartGameResultNoReadyCheck(gs, roomCode) ==
    IF ~Has(gs, roomCode) THEN "Game not found"
    ELSE IF Len(Get(gs, roomCode).players) < 2
         THEN "At least 2 players are required to start the game"
    ELSE "ok"

\* startGame: the error it returns, "ok" when the game starts
StartGameResult(gs, roomCode) ==
    IF ~Has(gs, roomCode) THEN "Game not found"
    ELSE IF Len(Get(gs, roomCode).players) < 2
         THEN "At least 2 players are required to start the game"
    ELSE IF ~(\A i \in 1..Len(Get(gs, roomCode).players) :
                  Get(gs, roomCode).players[i].isReady)
         THEN "Not all players are ready"
    ELSE "ok"

\* startGame: the game after a successful start
StartedGame(game) ==
    [game EXCEPT !.gameState = "PLAYING", !.currentTurnIndex = 0, !.gameLog = <<>>]

\* socket.on('start_game')
StartGame(s, roomCode) ==
    /\ s \in Callers
    /\ LET result == StartGameResult(games, roomCode) IN
        /\ games' = IF result = "ok"
                    THEN Put(games, StartedGame(Get(games, roomCode))) ELSE games
    /\ UNCHANGED <<disconnectTimers, open, nextOid>>

\* nextTurn: the while loop, from nextIndex with attempts made so far
RECURSIVE ScanTurn(_, _, _)
ScanTurn(players, nextIndex, attempts) ==
    IF players[nextIndex + 1].isEliminated /\ attempts < Len(players)
    THEN ScanTurn(players, (nextIndex + 1) % Len(players), attempts + 1)
    ELSE nextIndex

\* nextTurn: the number of iterations the while loop makes
RECURSIVE ScanAttempts(_, _, _)
ScanAttempts(players, nextIndex, attempts) ==
    IF players[nextIndex + 1].isEliminated /\ attempts < Len(players)
    THEN ScanAttempts(players, (nextIndex + 1) % Len(players), attempts + 1)
    ELSE attempts

\* nextTurn that moves to the next index without skipping eliminated players
nextTurnNoSkip(game) ==
    [game EXCEPT !.currentTurnIndex = (game.currentTurnIndex + 1) % Len(game.players)]

\* nextTurn: the game after the turn moved on
nextTurn(game) ==
    [game EXCEPT !.currentTurnIndex =
        ScanTurn(game.players, (game.currentTurnIndex + 1) % Len(game.players), 0)]

\* Matched without the !p.isEliminated test
MatchedAnyState(game, number) ==
    SelectSeq(game.players, LAMBDA p : StrictEq(p.secretNumber, number))

\* eliminateNumber: the players the forEach marks, in array order
Matched(game, number) ==
    SelectSeq(game.players,
              LAMBDA p : ~p.isEliminated /\ StrictEq(p.secretNumber, number))

\* eliminateNumber: the players array after the forEach
MarkEliminated(players, number) ==
    [i \in 1..Len(players) |->
        IF ~players[i].isEliminated /\ StrictEq(players[i].secretNumber, number)
        THEN [players[i] EXCEPT !.isEliminated = TRUE] ELSE players[i]]

Oids(players) == [i \in 1..Len(players) |-> players[i].oid]
PlayerNames(players) == [i \in 1..Len(players) |-> players[i].name]

\* EliminateResult without the check of the caller's own secret
EliminateResultNoSelfCheck(gs, roomCode, number, socketId) ==
    IF ~Has(gs, roomCode) THEN "null"
    ELSE LET game == Get(gs, roomCode) IN
    IF game.gameState # "PLAYING" THEN "null"
    ELSE IF game.currentTurnIndex >= Len(game.players) THEN "TypeError"
    ELSE LET currentPlayer == game.players[game.currentTurnIndex + 1] IN
    IF currentPlayer.id # socketId THEN "Not your turn"
    ELSE IF currentPlayer.isEliminated THEN "You are eliminated"
    ELSE IF Len(SelectSeq(MarkEliminated(game.players, number),
                          LAMBDA p : ~p.isEliminated)) <= 1
         THEN "GAME_OVER"
    ELSE "CONTINUE"

\* eliminateNumber: what the call returns: "null", an error message, "TypeError"
\* when game.players[currentTurnIndex] is undefined, "GAME_OVER" or "CONTINUE"
EliminateResult(gs, roomCode, number, socketId) ==
    IF ~Has(gs, roomCode) THEN "null"
    ELSE LET game == Get(gs, roomCode) IN
    IF game.gameState # "PLAYING" THEN "null"
    ELSE IF game.currentTurnIndex >= Len(game.players) THEN "TypeError"
    ELSE LET currentPlayer == game.players[game.currentTurnIndex + 1] IN
    IF currentPlayer.id # socketId THEN "Not your turn"
    ELSE IF currentPlayer.isEliminated THEN "You are eliminated"
    ELSE IF StrictEq(currentPlayer.secretNumber, number)
         THEN "You cannot select your own secret number!"
    ELSE IF Len(SelectSeq(MarkEliminated(game.players, number),
                          LAMBDA p : ~p.isEliminated)) <= 1
         THEN "GAME_OVER"
    ELSE "CONTINUE"

\* Eliminated that records the first player of the array as the winner
EliminatedWinnerFirstSeat(game, number) ==
    LET currentPlayer == game.players[game.currentTurnIndex + 1]
        eliminatedPlayers == Matched(game, number)
        marked == [game EXCEPT
            !.players = MarkEliminated(game.players, number),
            !.eliminatedPlayers = @ \o Oids(eliminatedPlayers),
            !.gameLog = Append(@, [player |-> currentPlayer.name, number |-> number,
                                   eliminated |-> PlayerNames(eliminatedPlayers)])]
        activePlayers == ActivePlayers(marked)
    IN IF Len(activePlayers) <= 1
       THEN [marked EXCEPT !.gameState = "FINISHED", !.winner = game.players[1].oid]
       ELSE nextTurn(marked)

\* Eliminated that writes a log entry only when the call eliminated somebody
EliminatedLogsOnlyHits(game, number) ==
    LET eliminatedPlayers == Matched(game, number)
        marked == [game EXCEPT
            !.players = MarkEliminated(game.players, number),
            !.eliminatedPlayers = @ \o Oids(eliminatedPlayers),
            !.gameLog = IF eliminatedPlayers = <<>> THEN @
                        ELSE Append(@, [player |-> game.players[game.currentTurnIndex + 1].name,
                                        number |-> number,
                                        eliminated |-> PlayerNames(eliminatedPlayers)])]
        activePlayers == ActivePlayers(marked)
    IN IF Len(activePlayers) <= 1
       THEN [marked EXCEPT !.gameState = "FINISHED",
                !.winner = IF activePlayers = <<>> THEN NoPlayer ELSE activePlayers[1].oid]
       ELSE nextTurn(marked)

\* eliminateNumber: the game after an accepted call (the forEach, the log entry,
\* then the win check or the next turn)
Eliminated(game, number) ==
    LET currentPlayer == game.players[game.currentTurnIndex + 1]
        eliminatedPlayers == Matched(game, number)
        marked == [game EXCEPT
            !.players = MarkEliminated(game.players, number),
            !.eliminatedPlayers = @ \o Oids(eliminatedPlayers),
            !.gameLog = Append(@, [player |-> currentPlayer.name, number |-> number,
                                   eliminated |-> PlayerNames(eliminatedPlayers)])]
        activePlayers == ActivePlayers(marked)
    IN IF Len(activePlayers) <= 1
       THEN [marked EXCEPT !.gameState = "FINISHED",
                !.winner = IF activePlayers = <<>> THEN NoPlayer ELSE activePlayers[1].oid]
       ELSE nextTurn(marked)

\* socket.on('eliminate')
Eliminate(s, roomCode, number) ==
    /\ s \in Callers
    /\ LET result == EliminateResult(games, roomCode, number, s) IN
        /\ games' = CASE result \in {"GAME_OVER", "CONTINUE"} ->
                             Put(games, Eliminated(Get(games, roomCode), number))
                      [] result = "You are eliminated" ->
                             Put(games, nextTurn(Get(games, roomCode)))
                      [] OTHER -> games
    /\ UNCHANGED <<disconnectTimers, open, nextOid>>

HasSeat(game, socketId) == IndexOfId(game.players, socketId) # -1

\* _removePlayerNow: the first game, in the Map's iteration order, that seats socketId
\* (0 when there is none)
FirstGameOf(gs, socketId) ==
    IF \E k \in 1..Len(gs) : HasSeat(gs[k], socketId)
    THEN CHOOSE k \in 1..Len(gs) :
             HasSeat(gs[k], socketId) /\ \A j \in 1..(k - 1) : ~HasSeat(gs[j], socketId)
    ELSE 0

\* _removePlayerNow: the oid of the player it splices out (NoPlayer when it returns null)
RemovedPlayer(gs, socketId) ==
    IF FirstGameOf(gs, socketId) = 0 THEN NoPlayer
    ELSE LET game == gs[FirstGameOf(gs, socketId)] IN
         game.players[IndexOfId(game.players, socketId) + 1].oid

\* Spliced without the hand-over of the host flag to players[0]
SplicedKeepsFlags(game, socketId) ==
    LET index == IndexOfId(game.players, socketId)
    IN [game EXCEPT !.players = SubSeq(game.players, 1, index) \o
                                SubSeq(game.players, index + 2, Len(game.players))]

\* _removePlayerNow: the game after the splice and the host hand-over
Spliced(game, socketId) ==
    LET index == IndexOfId(game.players, socketId)
        player == game.players[index + 1]
        rest == SubSeq(game.players, 1, index) \o
                SubSeq(game.players, index + 2, Len(game.players))
    IN [game EXCEPT !.players =
           IF player.isHost /\ Len(rest) > 0
           THEN [rest EXCEPT ![1] = [@ EXCEPT !.isHost = TRUE]] ELSE rest]

\* RemovePlayerNow without the deletion of a room left empty
RemovePlayerNowKeepsEmptyRoom(gs, socketId) ==
    IF FirstGameOf(gs, socketId) = 0 THEN gs
    ELSE Put(gs, Spliced(gs[FirstGameOf(gs, socketId)], socketId))

\* _removePlayerNow: the Map games afterwards
RemovePlayerNow(gs, socketId) ==
    IF FirstGameOf(gs, socketId) = 0 THEN gs
    ELSE LET game == gs[FirstGameOf(gs, socketId)] IN
         IF Len(game.players) = 1 THEN Delete(gs, game.roomCode)
         ELSE Put(gs, Spliced(game, socketId))

\* scheduleRemovePlayer: disconnectTimers after the old timer is cleared and the new one set
scheduleRemovePlayer(timers, socketId) == timers \cup {socketId}

\* socket.on('disconnect') of the build with the grace period.  (The timer of a
\* connection without a seat finds no player to remove, and no rejoin can cancel
\* it; that disconnect is left out.)
Disconnect(s) ==
    /\ s \in open
    /\ open' = open \ {s}
    /\ disconnectTimers' = scheduleRemovePlayer(disconnectTimers, s)
    /\ UNCHANGED <<games, nextOid>>

\* the setTimeout callback of scheduleRemovePlayer
TimerFire(s) ==
    /\ s \in disconnectTimers
    /\ disconnectTimers' = disconnectTimers \ {s}
    /\ games' = RemovePlayerNow(games, s)
    /\ UNCHANGED <<open, nextOid>>

\* socket.on('disconnect') of src/index.js: removePlayer at once
DisconnectDirect(s) ==
    /\ s \in open
    /\ open' = open \ {s}
    /\ games' = RemovePlayerNow(games, s)
    /\ UNCHANGED <<disconnectTimers, nextOid>>

\* the model stops creating player objects at MaxPlayersCreated
CanCreate == nextOid <= MaxPlayersCreated

\* the model stops accepting calls once the log of the room holds MaxLog entries
CanCall(roomCode, number, s) ==
    EliminateResult(games, roomCode, number, s) \in {"GAME_OVER", "CONTINUE"} =>
        Len(Get(games, roomCode).gameLog) < MaxLog

\* a join that would be admitted needs a player object, a refused one does not
CanJoin(roomCode) == JoinGameResult(games, roomCode) = "ok" => CanCreate

Next ==
    \/ \E s \in Callers, playerName \in Names :
           CanCreate /\ CreateGame(s, playerName)
    \/ \E s \in Callers, roomCode \in Codes, playerName \in Names :
           CanJoin(roomCode) /\ JoinGame(s, roomCode, playerName)
    \/ \E s \in Callers, roomCode \in Codes, playerName \in Names :
           RejoinGame(s, roomCode, playerName)
    \/ \E s \in Callers, roomCode \in Codes, secretNumber \in RawSecrets :
           PlayerReady(s, roomCode, secretNumber)
    \/ \E s \in Callers, roomCode \in Codes : StartGame(s, roomCode)
    \/ \E s \in Callers, roomCode \in Codes, number \in CallNumbers :
           CanCall(roomCode, number, s) /\ Eliminate(s, roomCode, number)
    \/ \E s \in SocketIds : Disconnect(s)
    \/ \E s \in SocketIds : TimerFire(s)
    \/ \E s \in SocketIds : DisconnectDirect(s)

Spec == Init /\ [][Next]_vars

\* the timer of scheduleRemovePlayer fires once its delay has elapsed
FairSpec == Spec /\ \A s \in SocketIds : WF_vars(TimerFire(s))

\* ------------------------------------------------------------ properties
Hosts(game) == {i \in 1..Len(game.players) : game.players[i].isHost}
Active(game) == {i \in 1..Len(game.players) : ~game.players[i].isEliminated}
Rank(gameState) ==
    CASE gameState = "LOBBY" -> 0 [] gameState = "PLAYING" -> 1 [] gameState = "FINISHED" -> 2

\* C1: while a room is PLAYING, currentTurnIndex is an index of its players array
\* and the player there is not eliminated, unless every player is eliminated.
C1_TurnOnActivePlayer ==
    \A k \in 1..Len(games) :
        games[k].gameState = "PLAYING" =>
            /\ games[k].currentTurnIndex < Len(games[k].players)
            /\ \/ ~games[k].players[games[k].currentTurnIndex + 1].isEliminated
               \/ Active(games[k]) = {}

\* C2: a room is FINISHED exactly when at most one of its players is active: no
\* PLAYING room has at most one active player, no FINISHED room has two or more,
\* and the winner of a FINISHED room is its last active player.
C2_FinishedIffOneActive ==
    \A k \in 1..Len(games) :
        /\ games[k].gameState = "PLAYING" => Cardinality(Active(games[k])) >= 2
        /\ games[k].gameState = "FINISHED" =>
              /\ Cardinality(Active(games[k])) <= 1
              /\ \A i \in Active(games[k]) : games[k].winner = games[k].players[i].oid

\* C3: the state of a room only moves forward, LOBBY -> PLAYING -> FINISHED; no
\* command takes a room back from FINISHED or from PLAYING.
C3_StateOnlyForward ==
    [][\A c \in Codes :
          Has(games, c) /\ Has(games', c) =>
              Rank(Get(games', c).gameState) >= Rank(Get(games, c).gameState)]_vars

\* C4: every room of the registry has exactly one player with isHost = TRUE.
C4_ExactlyOneHost ==
    \A k \in 1..Len(games) : Cardinality(Hosts(games[k])) = 1

\* C4 case: the creator of a room has left and the flag was handed to a player who
\* had joined (every player object ever created but one is gone or was never host)
C4_Witness ==
    \E k \in 1..Len(games) :
        /\ games[k].players[1].isHost
        /\ games[k].players[1].oid > 1
        /\ games[k].gameState = "LOBBY"
        /\ Len(games[k].players) = 1
        /\ nextOid = 3
        /\ disconnectTimers = {}

\* the step gives the player object seated at games[k].players[i] another socket
\* id, which is what a successful rejoinGame does to the player it matches
Rebound(k, i) ==
    \E k2 \in 1..Len(games') : \E i2 \in 1..Len(games'[k2].players) :
        /\ games'[k2].players[i2].oid = games[k].players[i].oid
        /\ games'[k2].players[i2].id # games[k].players[i].id

\* the step is rejoinGame, called by the socket that games[k].players[i] ends up on
RejoinOf(k, i) ==
    \E n \in Names : RejoinGame(games'[k].players[i].id, games[k].roomCode, n)

\* C5: when rejoinGame matches a player whose socket id has a pending removal
\* timer, the timer entry of that id is gone afterwards, the player is still
\* seated where it was, and no pending timer is keyed by the player's new id:
\* no removal is pending for that player any more.
C5_RejoinCancelsRemoval ==
    [][\A k \in 1..Len(games) : \A i \in 1..Len(games[k].players) :
          (Rebound(k, i) /\ games[k].players[i].id \in disconnectTimers)
          => /\ games[k].players[i].id \notin disconnectTimers'
             /\ k <= Len(games') /\ i <= Len(games'[k].players)
             /\ games'[k].players[i].oid = games[k].players[i].oid
             /\ games'[k].players[i].id \notin disconnectTimers'
             /\ RejoinOf(k, i)]_vars

\* C5 case: one socket held both seats of a room and dropped; a rejoin under the
\* first player's name cleared its timer, so that both players are still seated,
\* the first on a live socket, and no timer is pending
C5_Witness ==
    \E k \in 1..Len(games) :
        /\ Len(games[k].players) = 2
        /\ nextOid = 3
        /\ games[k].players[1].id \in open
        /\ games[k].players[2].id \notin open
        /\ disconnectTimers = {}

\* C6: a successful rejoinGame changes the id of the matched player and nothing
\* else in the registry: the other rooms, the order of the players, every secret,
\* ready, eliminated and host flag, the game state, the turn index, the log, the
\* eliminated list and the winner stay; of the timers only the old id's goes.
C6_RejoinChangesOnlyId ==
    [][\A k \in 1..Len(games) : \A i \in 1..Len(games[k].players) :
          Rebound(k, i)
          => /\ k <= Len(games') /\ i <= Len(games'[k].players)
             /\ games' = [games EXCEPT ![k].players[i].id = games'[k].players[i].id]
             /\ disconnectTimers' = disconnectTimers \ {games[k].players[i].id}
             /\ nextOid' = nextOid
             /\ RejoinOf(k, i)]_vars

\* C6 case: the second of two players, ready and on turn in a PLAYING room, sits
\* on a third socket: it was rebound by a rejoin during the game
C6_Witness ==
    \E k \in 1..Len(games) :
        /\ games[k].gameState = "PLAYING"
        /\ Len(games[k].players) = 2
        /\ nextOid = 3
        /\ games[k].currentTurnIndex = 1
        /\ games[k].players[1].id = 1
        /\ games[k].players[2].id = 3
        /\ games[k].players[2].isReady

\* C7: when the grace timer of a socket id fires, the entry of that id is deleted
\* and no player with that id is left in any room, a rejoin under the removed
\* player's name then fails, and every pending timer does fire or get cancelled.
C7_TimerRemovesPlayer ==
    /\ \A s \in SocketIds : (s \in disconnectTimers) ~> (s \notin disconnectTimers)
    /\ [][\A s \in SocketIds :
             TimerFire(s) =>
                 /\ s \notin disconnectTimers'
                 /\ s \notin SeatIds(games')
                 /\ \A k \in 1..Len(games) : \A i \in 1..Len(games[k].players) :
                        games[k].players[i].oid = RemovedPlayer(games, s) =>
                            RejoinGameResult(games', games[k].roomCode,
                                             games[k].players[i].name) # "ok"]_vars

InsufficientPlayers == "At least 2 players are required to start the game"
NotAllReady == "Not all players are ready"
Unready(game) == {i \in 1..Len(game.players) : ~game.players[i].isReady}

\* C8: startGame on an existing room returns the InsufficientPlayers error when
\* the room has fewer than 2 players and the NotAllReady error when it has 2 or
\* more and one of them is unready (with fewer than 2 the first error wins); a
\* failed startGame changes nothing; and a room only turns PLAYING with at least
\* 2 players, all ready.
C8_StartGuards ==
    /\ [](\A c \in Codes : Has(games, c) =>
            /\ Len(Get(games, c).players) < 2 =>
                   StartGameResult(games, c) = InsufficientPlayers
            /\ Unready(Get(games, c)) # {} =>
                   StartGameResult(games, c) \in {InsufficientPlayers, NotAllReady}
            /\ Len(Get(games, c).players) >= 2 /\ Unready(Get(games, c)) # {} =>
                   StartGameResult(games, c) = NotAllReady)
    /\ [][\A c \in Codes :
            /\ StartGameResult(games, c) # "ok" =>
                   \A s \in SocketIds : StartGame(s, c) => games' = games
            /\ (/\ Has(games, c) /\ Has(games', c)
                /\ Get(games, c).gameState # "PLAYING"
                /\ Get(games', c).gameState = "PLAYING")
               => /\ Len(Get(games', c).players) >= 2
                  /\ Unready(Get(games', c)) = {}]_vars

\* C8 case: a LOBBY room with two players, one ready and one not, on which a
\* start is refused whichever of them readied first
C8_Witness ==
    \E k \in 1..Len(games) :
        /\ games[k].gameState = "LOBBY"
        /\ Len(games[k].players) = 2
        /\ games[k].players[2].isReady
        /\ ~games[k].players[1].isReady
        /\ StartGameResult(games, games[k].roomCode) = NotAllReady

\* C9: a start_game that turns a room PLAYING comes from the socket of the room's
\* host.
C9_OnlyHostStarts ==
    [][\A s \in SocketIds, c \in Codes :
          (/\ StartGame(s, c)
           /\ Has(games, c) /\ Has(games', c)
           /\ Get(games, c).gameState # "PLAYING"
           /\ Get(games', c).gameState = "PLAYING")
          => \E i \in 1..Len(Get(games, c).players) :
                 /\ Get(games, c).players[i].id = s
                 /\ Get(games, c).players[i].isHost]_vars

SelfTargetForbidden == "You cannot select your own secret number!"

NotYourTurn == "Not your turn"

\* C11: in a PLAYING room eliminateNumber called by any socket other than that of
\* the player at currentTurnIndex returns the NotYourTurn error; on an unknown
\* room or a room that is not PLAYING it returns null; and in all those cases the
\* call changes nothing.
C11_WrongCallerRejected ==
    /\ [](\A c \in Codes, s \in SocketIds, number \in CallNumbers :
            /\ (~Has(games, c) \/ Get(games, c).gameState # "PLAYING")
                   => EliminateResult(games, c, number, s) = "null"
            /\ (/\ Has(games, c) /\ Get(games, c).gameState = "PLAYING"
                /\ ~(/\ Get(games, c).currentTurnIndex < Len(Get(games, c).players)
                     /\ Get(games, c).players[Get(games, c).currentTurnIndex + 1].id = s))
                   => EliminateResult(games, c, number, s) = NotYourTurn)
    /\ [][\A c \in Codes, s \in SocketIds, number \in CallNumbers :
            (Eliminate(s, c, number)
                /\ EliminateResult(games, c, number, s) \in {"null", NotYourTurn, "TypeError"})
            => games' = games]_vars

\* ------------------------------------------------- the room at its cap
\* A LOBBY room one seat short of the cap: socket 1 created it and then sent
\* join_game for its own room until MaxPlayers - 1 players were seated.
CapRoom ==
    [NewGame(1, NewPlayer(1, 1, "a", TRUE)) EXCEPT
        !.players = [i \in 1..(MaxPlayers - 1) |-> NewPlayer(i, 1, "a", i = 1)]]

CapInit ==
    /\ games = <<CapRoom>>
    /\ disconnectTimers = {}
    /\ open = {1}
    /\ nextOid = MaxPlayers

\* the model admits MaxPlayersCreated more players to the room at its cap
CapCanJoin(roomCode) ==
    JoinGameResult(games, roomCode) = "ok" => nextOid <= MaxPlayers + MaxPlayersCreated

CapNext ==
    \/ \E s \in Callers, roomCode \in Codes, playerName \in Names :
           CapCanJoin(roomCode) /\ JoinGame(s, roomCode, playerName)
    \/ \E s \in SocketIds : Disconnect(s)
    \/ \E s \in SocketIds : TimerFire(s)
    \/ \E s \in SocketIds : DisconnectDirect(s)

CapSpec == CapInit /\ [][CapNext]_vars

RoomFull == "Room is full"

\* C12: no room ever holds more than MaxPlayers (20) players; joinGame on a LOBBY
\* room that holds 20 returns the RoomFull error and changes nothing.
C12_RoomCap ==
    /\ [](\A k \in 1..Len(games) :
            /\ Len(games[k].players) <= MaxPlayers
            /\ (games[k].gameState = "LOBBY" /\ Len(games[k].players) = MaxPlayers)
                   => JoinGameResult(games, games[k].roomCode) = RoomFull)
    /\ [][\A s \in SocketIds, c \in Codes, n \in Names :
            (/\ JoinGame(s, c, n)
             /\ Has(games, c)
             /\ Len(Get(games, c).players) >= MaxPlayers)
            => games' = games]_vars

\* C12 case: the room is full again after players left and others took their
\* seats: the last player object the model admits sits in seat 20
C12_Witness ==
    \E k \in 1..Len(games) :
        /\ Len(games[k].players) = MaxPlayers
        /\ games[k].players[MaxPlayers].oid = MaxPlayers + MaxPlayersCreated
        /\ JoinGameResult(games, games[k].roomCode) = RoomFull

RoomNotFound == "Room not found"
GameNotFound == "Game not found"

\* C13: the registry never holds a room without players: the removal of a room's
\* last player deletes the room in the same step; and while a code is not in the
\* registry joinGame and rejoinGame on it return the RoomNotFound error, startGame
\* its not-found error, and none of them changes anything.
C13_NoEmptyRoom ==
    /\ [](\A k \in 1..Len(games) : Len(games[k].players) >= 1)
    /\ [](\A c \in Codes : ~Has(games, c) =>
            /\ JoinGameResult(games, c) = RoomNotFound
            /\ \A n \in Names : RejoinGameResult(games, c, n) = RoomNotFound
            /\ StartGameResult(games, c) = GameNotFound)
    /\ [][/\ \A s \in SocketIds :
               (/\ TimerFire(s) \/ DisconnectDirect(s)
                /\ FirstGameOf(games, s) # 0
                /\ Len(games[FirstGameOf(games, s)].players) = 1)
               => ~Has(games', games[FirstGameOf(games, s)].roomCode)
          /\ \A s \in SocketIds, c \in Codes, n \in Names :
               (~Has(games, c)
                   /\ (JoinGame(s, c, n) \/ RejoinGame(s, c, n) \/ StartGame(s, c)))
               => games' = games]_vars

\* C13 case: every player object the model admits was created and has left: the
\* rooms they were in are deleted, the first one's code was used again
C13_Witness ==
    /\ games = <<>>
    /\ nextOid = MaxPlayersCreated + 1
    /\ disconnectTimers = {}

\* ------------------------------------------------ the game in progress
\* A room right after startGame: socket 1 created it, n - 1 players joined, every
\* player sent player_ready with one of the RawSecrets, then start_game.  Seat i is
\* on socket SeatSocket(i) (one connection may hold several seats).
SeatSocket(i) == ((i - 1) % MaxSockets) + 1
SeatName(i) == IF i % 2 = 1 THEN "a" ELSE "b"
Secrets == {parseInt(raw) : raw \in RawSecrets}

PlayRoom(n, secrets) ==
    StartedGame(
        [NewGame(1, NewPlayer(1, 1, "a", TRUE)) EXCEPT
            !.players = [i \in 1..n |->
                [NewPlayer(i, SeatSocket(i), SeatName(i), i = 1) EXCEPT
                    !.secretNumber = secrets[i], !.isReady = TRUE]]])

PlayInit ==
    \E n \in 2..MaxSeats : \E secrets \in [1..n -> Secrets] :
        /\ games = <<PlayRoom(n, secrets)>>
        /\ disconnectTimers = {}
        /\ open = {SeatSocket(i) : i \in 1..n}
        /\ nextOid = n + 1

\* the model stops accepting calls once the log holds MaxLog + 2 entries
PlayCanCall(roomCode, number, s) ==
    EliminateResult(games, roomCode, number, s) \in {"GAME_OVER", "CONTINUE"} =>
        Len(Get(games, roomCode).gameLog) < MaxLog + 2

PlayNext ==
    \/ \E s \in Callers, roomCode \in Codes, number \in CallNumbers :
           PlayCanCall(roomCode, number, s) /\ Eliminate(s, roomCode, number)
    \/ \E s \in Callers, roomCode \in Codes : StartGame(s, roomCode)
    \/ \E s \in SocketIds : DisconnectDirect(s)

PlaySpec == PlayInit /\ [][PlayNext]_vars

\* the last entry of the room's log
LastEntry(game) == game.gameLog[Len(game.gameLog)]

\* the step is an accepted call on room c: the log of the room gained an entry
Grew(c) ==
    /\ Has(games, c) /\ Has(games', c)
    /\ Len(Get(games', c).gameLog) = Len(Get(games, c).gameLog) + 1

\* the indices, in increasing order, of the non-eliminated players of game whose
\* secret equals number
HitSeq(game, number) ==
    SelectSeq([i \in 1..Len(game.players) |-> i],
              LAMBDA i : /\ ~game.players[i].isEliminated
                         /\ StrictEq(game.players[i].secretNumber, number))

\* C14: an accepted call of a number marks eliminated exactly the players that
\* were not eliminated and whose secret equals the number, and changes no other
\* player field; the list of the call (whose names the log entry records) is
\* exactly those players; each of them is appended once to eliminatedPlayers,
\* which never holds a player twice.
C14_EliminatesExactlyMatching ==
    /\ [](\A k \in 1..Len(games) :
            \A i, j \in 1..Len(games[k].eliminatedPlayers) :
                i # j => games[k].eliminatedPlayers[i] # games[k].eliminatedPlayers[j])
    /\ [][\A c \in Codes : Grew(c) =>
            LET before == Get(games, c)
                after == Get(games', c)
                hit == HitSeq(before, LastEntry(after).number)
            IN /\ Len(after.players) = Len(before.players)
               /\ \A i \in 1..Len(before.players) :
                      after.players[i] =
                          [before.players[i] EXCEPT !.isEliminated =
                              @ \/ (\E j \in 1..Len(hit) : hit[j] = i)]
               /\ after.eliminatedPlayers = before.eliminatedPlayers \o
                      [j \in 1..Len(hit) |-> before.players[hit[j]].oid]
               /\ LastEntry(after).eliminated =
                      [j \in 1..Len(hit) |-> before.players[hit[j]].name]]_vars

\* C14 case: one call eliminated two players at once and spared the third, the
\* caller
C14_Witness ==
    \E k \in 1..Len(games) :
        /\ Len(games[k].gameLog) = 1
        /\ Len(LastEntry(games[k]).eliminated) = 2
        /\ Len(games[k].eliminatedPlayers) = 2
        /\ Len(games[k].players) = 3
        /\ Cardinality(Active(games[k])) = 1

\* the first index after currentTurnIndex, in circular order, whose player is not
\* eliminated
NextActive(game) ==
    LET n == Len(game.players)
        at(d) == ((game.currentTurnIndex + d) % n) + 1
        d == CHOOSE d \in 1..n :
                 /\ ~game.players[at(d)].isEliminated
                 /\ \A e \in 1..(d - 1) : game.players[at(e)].isEliminated
    IN at(d) - 1

C16_SecretFixedAfterStart ==
    [][\A k \in 1..Len(games) : \A i \in 1..Len(games[k].players) :
          games[k].gameState # "LOBBY" =>
              \A k2 \in 1..Len(games') : \A i2 \in 1..Len(games'[k2].players) :
                  games'[k2].players[i2].oid = games[k].players[i].oid =>
                      games'[k2].players[i2].secretNumber
                          = games[k].players[i].secretNumber]_vars

\* C17: nextTurn on a room with at least 2 non-eliminated players sets
\* currentTurnIndex to the first non-eliminated index in circular order from
\* (currentTurnIndex + 1) mod players.length, after at most players.length
\* iterations, and changes nothing else in the room; so does every accepted call
\* that leaves the room PLAYING.
C17_NextTurnFirstActive ==
    /\ [](\A k \in 1..Len(games) :
            Cardinality(Active(games[k])) >= 2 =>
                /\ nextTurn(games[k]) =
                       [games[k] EXCEPT !.currentTurnIndex = NextActive(games[k])]
                /\ ~games[k].players[nextTurn(games[k]).currentTurnIndex + 1].isEliminated
                /\ ScanAttempts(games[k].players,
                       (games[k].currentTurnIndex + 1) % Len(games[k].players), 0)
                      <= Len(games[k].players))
    /\ [][\A c \in Codes :
            (Grew(c) /\ Get(games', c).gameState = "PLAYING") =>
                LET before == Get(games, c)
                    after == Get(games', c)
                IN /\ Cardinality(Active(after)) >= 2
                   /\ after.currentTurnIndex =
                          NextActive([before EXCEPT !.players = after.players])
                   /\ ~after.players[after.currentTurnIndex + 1].isEliminated]_vars

\* C17 case: the first of three players eliminated the second, and the scan
\* skipped the second: it is the third player's turn
C17_Witness ==
    \E k \in 1..Len(games) :
        /\ games[k].gameState = "PLAYING"
        /\ Len(games[k].players) = 3
        /\ games[k].players[2].isEliminated
        /\ games[k].currentTurnIndex = 2
        /\ Len(games[k].gameLog) = 1

RoomNotJoinable == "Game already in progress"

\* the elements of sub are elements of seq (whose elements are distinct) and keep
\* the order they have in seq
KeepsOrder(sub, seq) ==
    /\ \A i \in 1..Len(sub) : \E p \in 1..Len(seq) : seq[p] = sub[i]
    /\ \A i, j \in 1..Len(sub) : i < j =>
           \E p, q \in 1..Len(seq) : p < q /\ seq[p] = sub[i] /\ seq[q] = sub[j]

C19_WinnerIsCaller ==
    [][\A c \in Codes :
          (Grew(c) /\ Get(games', c).gameState = "FINISHED") =>
              LET before == Get(games, c)
                  after == Get(games', c)
                  caller == before.players[before.currentTurnIndex + 1]
              IN /\ ~caller.isEliminated
                 /\ after.winner # NoPlayer
                 /\ after.winner = caller.oid
                 /\ Active(after) = {before.currentTurnIndex + 1}
                 /\ LastEntry(after).player = caller.name]_vars

\* C19 case: a call ended the game with the caller in the second seat: the first
\* seat holds an eliminated player, the winner is the player of the second seat
C19_Witness ==
    \E k \in 1..Len(games) :
        /\ games[k].gameState = "FINISHED"
        /\ Len(games[k].players) = 2
        /\ games[k].players[1].isEliminated
        /\ ~games[k].players[2].isEliminated
        /\ games[k].winner = games[k].players[2].oid
        /\ games[k].currentTurnIndex = 1

\* C20: after removePlayer(socketId), called directly or by the grace timer, no
\* room holds a player with that socket id, also when the connection sent
\* create_game or join_game more than once: the removal leaves the socket id
\* without a seat.
C20_OneSeatPerSocket ==
    [][\A s \in SocketIds :
          (TimerFire(s) \/ DisconnectDirect(s)) => s \notin SeatIds(games')]_vars
====
